---- MODULE Spec2Model ----
(***************************************************************************)
(* A model of the notebook TF_Intro.ipynb: the pandas preprocessing cell,  *)
(* the three graph-building cells with their sessions, and the node        *)
(* functions (sigmoid, cost, accuracy) the graph cells define.             *)
(*                                                                         *)
(* Numbers are fixed point: sigmoid outputs are in percent, logits and     *)
(* trained variables in millionths, costs in thousandths.                  *)
(***************************************************************************)
EXTENDS Integers, Sequences, FiniteSets, TLC

VARIABLES
    pc,           \* position in the notebook
    cell,         \* the graph cell being executed (1, 2, 3), 0 outside them
    defaults_df,  \* the frame of cell 1 before encoding
    clf_df,       \* the one-hot encoded frame
    X, Y,         \* inputs (a frame) and targets (shape [n, 1])
    graph,        \* the default graph: a set of edges <<from, to>> between nodes
    W, b,         \* the session's values of the trainable variables
    initialised,  \* whether global_variables_initializer ran in the open session
    logs,         \* log directory -> sequence of events written by FileWriters
    e,            \* epochs of the training loop completed
    runs,         \* the sess.run calls made: what was fetched, on which rows, when
    accuracy,     \* <<value>> last fetched from the accuracy node (percent), or <<>>
    cost          \* <<value>> last fetched from the cost node (thousandths), or <<>>

vars == <<pc, cell, defaults_df, clf_df, X, Y, graph, W, b, initialised, logs,
          e, runs, accuracy, cost>>

-----------------------------------------------------------------------------
(* Bounds of the model *)

\* rows of the frame read by cell 1
MaxRows == 3
\* rows of the inputs X fed to a session
MaxBatch == 2
\* epochs the training loop is followed for (epochs = 1000 in the notebook)
MaxEpochs == 3

-----------------------------------------------------------------------------
(* Generic helpers *)

SetMin(S) == CHOOSE m \in S : \A o \in S : m <= o

RECURSIVE SortedSeq(_)
SortedSeq(S) == IF S = {} THEN <<>>
                ELSE <<SetMin(S)>> \o SortedSeq(S \ {SetMin(S)})

Range(s) == {s[i] : i \in 1..Len(s)}

RECURSIVE Sum(_, _)
Sum(f, n) == IF n = 0 THEN 0 ELSE f[n] + Sum(f, n - 1)

-----------------------------------------------------------------------------
(* Cell 1: pandas preprocessing.  A frame is a record of its column names  *)
(* in order and its rows, each row a function from column name to number.  *)

Frame(cols, rows) == [columns |-> cols, rows |-> rows]

DfColumns == <<"LIMIT_BAL", "SEX", "EDUCATION", "MARRIAGE", "AGE",
               "PAY_0", "PAY_2", "PAY_3", "PAY_4", "PAY_5", "PAY_6", "Y">>

EncodedColumns == <<"SEX", "EDUCATION", "MARRIAGE",
                    "PAY_0", "PAY_2", "PAY_3", "PAY_4", "PAY_5", "PAY_6">>

EncodedPrefix == <<"SEX", "EDU", "MARRY",
                   "PAY_0", "PAY_2", "PAY_3", "PAY_4", "PAY_5", "PAY_6">>

Row(vals) == [c \in Range(DfColumns) |->
                vals[CHOOSE i \in 1..Len(DfColumns) : DfColumns[i] = c]]

\* Rows as the numeric frame holds them after pd.to_numeric; the third has the
\* EDUCATION value 0 that the notebook removes.
SampleRows == {
    Row(<<20, 2, 2, 1, 24,  2,  2, -1, -1, -2, -2, 1>>),
    Row(<<90, 2, 2, 2, 34,  0,  0,  0,  0,  0,  0, 0>>),
    Row(<<50, 1, 0, 3, 41, -1,  0, -1,  0,  0,  2, 0>>),
    Row(<<50, 1, 1, 0, 57, -1,  2,  0,  0, -2,  0, 1>>) }

\* defaults_df[defaults_df.EDUCATION != 0]
RemoveInvalid(df) ==
    Frame(df.columns, SelectSeq(df.rows, LAMBDA r : r["EDUCATION"] # 0))

DummyName(prefix, v) == prefix \o "_" \o ToString(v)

\* The values of a column, in increasing order: the levels get_dummies encodes.
Levels(df, col) == SortedSeq({df.rows[i][col] : i \in 1..Len(df.rows)})

DropFirstLevels(df, col) ==
    IF Levels(df, col) = <<>> THEN <<>> ELSE Tail(Levels(df, col))

EncodedLevels(df, col) == Levels(df, col)

DummyColumns(df, col, prefix) ==
    [i \in 1..Len(EncodedLevels(df, col)) |->
        DummyName(prefix, EncodedLevels(df, col)[i])]

RECURSIVE AllDummyColumns(_, _, _, _)
AllDummyColumns(df, columns, prefix, k) ==
    IF k > Len(columns) THEN <<>>
    ELSE DummyColumns(df, columns[k], prefix[k])
         \o AllDummyColumns(df, columns, prefix, k + 1)

\* The indicator cells of one row for the columns k.. of the encoded list.
RECURSIVE DummyCells(_, _, _, _, _)
DummyCells(df, r, columns, prefix, k) ==
    IF k > Len(columns) THEN <<>>
    ELSE LET lv == EncodedLevels(df, columns[k])
         IN  [i \in 1..Len(lv) |-> IF r[columns[k]] = lv[i] THEN 1 ELSE 0]
             \o DummyCells(df, r, columns, prefix, k + 1)

\* pd.get_dummies(df, columns=..., prefix=...): the columns not encoded keep
\* their place and values, the indicator columns follow, group by group.
GetDummies(df, columns, prefix) ==
    LET keep  == SelectSeq(df.columns, LAMBDA c : c \notin Range(columns))
        names == AllDummyColumns(df, columns, prefix, 1)
        cols  == keep \o names
        NewRow(r) ==
            LET cells == DummyCells(df, r, columns, prefix, 1)
            IN  [c \in Range(cols) |->
                    IF c \in Range(keep) THEN r[c]
                    ELSE cells[CHOOSE i \in 1..Len(names) : names[i] = c]]
    IN  Frame(cols, [i \in 1..Len(df.rows) |-> NewRow(df.rows[i])])

\* df.drop(col, axis=1)
DropColumn(df, col) ==
    LET cols == SelectSeq(df.columns, LAMBDA c : c # col)
    IN  Frame(cols, [i \in 1..Len(df.rows) |->
                        [c \in Range(cols) |-> df.rows[i][c]]])

\* clf_df.Y.values.reshape(n, 1): one row of one label per data row
LabelColumn(df) == [i \in 1..Len(df.rows) |-> <<df.rows[i]["Y"]>>]

EmptyFrame == Frame(<<>>, <<>>)

-----------------------------------------------------------------------------
(* The node functions of the graph cells.  A tensor of shape [n, k] is a   *)
(* sequence of n rows of k numbers.                                        *)

num_outputs == 1

\* one, in millionths
Unit == 1000 * 1000

\* learning_rate = 0.0001, in millionths
learning_rate == 100

\* tf.matmul(x, W): x of shape [n, num_features], w of shape [num_features, k]
MatMul(x, w) ==
    [i \in 1..Len(x) |->
        [k \in 1..num_outputs |->
            Sum([j \in 1..Len(w) |-> x[i][j] * w[j][k]], Len(w))]]

\* tensor + bias, the bias of shape [k] broadcast over the rows
AddBias(t, bias) ==
    [i \in 1..Len(t) |-> [k \in 1..Len(t[i]) |-> t[i][k] + bias[k]]]

\* 100 / (1 + exp(-z)) at z = -4, -3, ..., 4
SigmoidTable == <<2, 5, 12, 27, 50, 73, 88, 95, 98>>

\* sigmoid of a logit in millionths, in percent: the table, interpolated
\* linearly between whole logits
SigmoidPct(z) ==
    LET c  == IF z < -4 * Unit THEN -4 * Unit
              ELSE IF z > 4 * Unit THEN 4 * Unit ELSE z
        k  == IF c = 4 * Unit THEN 3 ELSE c \div Unit
        lo == SigmoidTable[k + 5]
        hi == SigmoidTable[k + 6]
    IN  lo + ((hi - lo) * (c - k * Unit)) \div Unit

Sigmoid(t) ==
    [i \in 1..Len(t) |-> [k \in 1..Len(t[i]) |-> SigmoidPct(t[i][k])]]

\* -1000 * ln(p / 100) for p = 1, ..., 100
NegLogTable == <<
        4605, 3912, 3507, 3219, 2996, 2813, 2659, 2526, 2408, 2303,
        2207, 2120, 2040, 1966, 1897, 1833, 1772, 1715, 1661, 1609,
        1561, 1514, 1470, 1427, 1386, 1347, 1309, 1273, 1238, 1204,
        1171, 1139, 1109, 1079, 1050, 1022, 994, 968, 942, 916,
        892, 868, 844, 821, 799, 777, 755, 734, 713, 693,
        673, 654, 635, 616, 598, 580, 562, 545, 528, 511,
        494, 478, 462, 446, 431, 416, 400, 386, 371, 357,
        342, 329, 315, 301, 288, 274, 261, 248, 236, 223,
        211, 198, 186, 174, 163, 151, 139, 128, 117, 105,
        94, 83, 73, 62, 51, 41, 30, 20, 10, 0 >>

\* -tf.log(p) of an output in percent, in thousandths
NegLog(p) == NegLogTable[p]

\* tf.reduce_sum over every element of a tensor
ReduceSum(t) ==
    Sum([i \in 1..Len(t) |-> Sum(t[i], Len(t[i]))], Len(t))

\* tf.reduce_mean(-tf.reduce_sum(y_labels * tf.log(y_output))): the sum is
\* already a scalar, so the mean leaves it as it is
Cost(output, labels) ==
    ReduceSum([i \in 1..Len(output) |->
                  [k \in 1..Len(output[i]) |->
                      labels[i][k] * NegLog(output[i][k])]])

\* tf.argmax(t, 1): per row, the first index (from 0) of the row's maximum
ArgMax(t) ==
    [i \in 1..Len(t) |->
        (CHOOSE k \in 1..Len(t[i]) :
            /\ \A m \in 1..Len(t[i]) : t[i][m] <= t[i][k]
            /\ \A m \in 1..(k - 1) : t[i][m] < t[i][k]) - 1]

\* tf.equal(tf.argmax(y_output, 1), tf.argmax(y_labels, 1))
CorrectPrediction(output, labels) ==
    [i \in 1..Len(output) |-> ArgMax(output)[i] = ArgMax(labels)[i]]

\* tf.reduce_mean(tf.cast(correct_prediction, tf.float32)), in percent
Accuracy(output, labels) ==
    LET cast == [i \in 1..Len(output) |->
                    IF CorrectPrediction(output, labels)[i] THEN 1 ELSE 0]
    IN  (100 * Sum(cast, Len(cast))) \div Len(cast)

\* sigmoid(matmul(x, W) + b)
Output(x, w, bias) == Sigmoid(AddBias(MatMul(x, w), bias))

\* One step of GradientDescentOptimizer(learning_rate).minimize(cost): the
\* gradient of the cost with respect to the logit of row i, output k is
\* -labels[i][k] * (1 - output[i][k]).
GradLogit(output, labels) ==
    [i \in 1..Len(output) |->
        [k \in 1..Len(output[i]) |-> -(labels[i][k] * (100 - output[i][k]))]]

StepW(x, w, bias, labels) ==
    LET g == GradLogit(Output(x, w, bias), labels)
    IN  [j \in 1..Len(w) |->
            [k \in 1..num_outputs |->
                w[j][k] - (learning_rate
                           * Sum([i \in 1..Len(x) |-> g[i][k] * x[i][j]], Len(x)))
                          \div 100]]

StepB(x, w, bias, labels) ==
    LET g == GradLogit(Output(x, w, bias), labels)
    IN  [k \in 1..num_outputs |->
            bias[k] - (learning_rate
                       * Sum([i \in 1..Len(x) |-> g[i][k]], Len(x))) \div 100]

-----------------------------------------------------------------------------
(* The graph cells.  A node is <<name scope, operation>>; the graph is the  *)
(* set of its edges, an edge <<a, c>> saying that c takes a as input.       *)

Cells == {1, 2, 3}

Node(scope, op) == <<scope, op>>

Nodes(g) == {ed[1] : ed \in g} \cup {ed[2] : ed \in g}

Ops(g) == {n[2] : n \in Nodes(g)}

\* The name scopes of cells 2 and 3; cell 1 uses none.
Scope(c, name) == IF c = 1 THEN "" ELSE name

\* inputs, W, bias, matmul, add, sigmoid: lines 147-156, 219-228, 292-304
ModelEdges(c) ==
    LET lin == Scope(c, "Linear_Output")
        w   == IF c = 3 THEN Node(lin, "cast") ELSE Node(lin, "W")
    IN  {<<Node("", "inputs"), Node(lin, "mat_mul")>>,
         <<w, Node(lin, "mat_mul")>>,
         <<Node(lin, "mat_mul"), Node(lin, "add")>>,
         <<Node(lin, "bias"), Node(lin, "add")>>,
         <<Node(lin, "add"), Node(Scope(c, "Logits"), "sigmoid")>>}
        \cup (IF c = 3 THEN {<<Node(lin, "W"), Node(lin, "cast")>>} ELSE {})

\* labels, log, mul, reduce_sum, neg, reduce_mean: lines 159-163, 231-233, 307-309
CostEdges(c) ==
    LET sc == Scope(c, "Cost")
    IN  {<<Node(Scope(c, "Logits"), "sigmoid"), Node(sc, "log")>>,
         <<Node("", "labels"), Node(sc, "mul")>>,
         <<Node(sc, "log"), Node(sc, "mul")>>,
         <<Node(sc, "mul"), Node(sc, "reduce_sum")>>,
         <<Node(sc, "reduce_sum"), Node(sc, "neg")>>,
         <<Node(sc, "neg"), Node(sc, "cost")>>}

\* GradientDescentOptimizer(learning_rate).minimize(cost): lines 167, 237, 314
TrainEdges(c) ==
    LET lin == Scope(c, "Linear_Output")
        tr  == Node(Scope(c, "Train"), "gradient_descent")
    IN  {<<Node(Scope(c, "Cost"), "cost"), tr>>,
         <<Node(lin, "W"), tr>>,
         <<Node(lin, "bias"), tr>>}

\* correct_prediction and accuracy: lines 170-171 and 241-242; in the third
\* graph cell the statements are comments (lines 317-320)
AccuracyEdges(c) ==
    LET sc == Scope(c, "Accuracy")
    IN  IF c = 3 THEN {}
        ELSE {<<Node(Scope(c, "Logits"), "sigmoid"), Node(sc, "argmax")>>,
              <<Node("", "labels"), Node(sc, "argmax_1")>>,
              <<Node(sc, "argmax"), Node(sc, "correct_prediction")>>,
              <<Node(sc, "argmax_1"), Node(sc, "correct_prediction")>>,
              <<Node(sc, "correct_prediction"), Node(sc, "cast")>>,
              <<Node(sc, "cast"), Node(sc, "accuracy")>>}

\* tf.summary.histogram / tf.summary.scalar and merge_all: lines 299-300, 310, 324
SummaryEdges(c) ==
    IF c # 3 THEN {}
    ELSE {<<Node("Linear_Output", "W"), Node("Linear_Output", "Weights")>>,
          <<Node("Linear_Output", "bias"), Node("Linear_Output", "Bias")>>,
          <<Node("Cost", "cost"), Node("Cost", "Cost")>>,
          <<Node("Linear_Output", "Weights"), Node("", "merged")>>,
          <<Node("Linear_Output", "Bias"), Node("", "merged")>>,
          <<Node("Cost", "Cost"), Node("", "merged")>>}

\* The graph a cell leaves in the default graph.
CellGraph(c) ==
    ModelEdges(c) \cup CostEdges(c) \cup TrainEdges(c)
    \cup AccuracyEdges(c) \cup SummaryEdges(c)

\* The directory of the cell's FileWriter: lines 179, 248, 330
SharedLogDir(c) == IF c = 1 THEN "./logs/1" ELSE IF c = 2 THEN "./logs/1"
                   ELSE "./logs/4"

LogDir(c) == IF c = 1 THEN "./logs/1" ELSE IF c = 2 THEN "./logs/3"
             ELSE "./logs/4"

LogDirs == {LogDir(c) : c \in Cells}

\* for e in range(epochs)
epochs == MaxEpochs

\* X.as_matrix(): the rows of the frame, each in column order
AsMatrix(df) ==
    [i \in 1..Len(df.rows) |->
        [j \in 1..Len(df.columns) |-> df.rows[i][df.columns[j]]]]

\* num_features = len(list(X))
num_features == Len(X.columns)

\* Values tf.truncated_normal(stddev=0.1) can give an entry of W
TruncatedNormal == {-(Unit \div 10), 0, Unit \div 10}

Run(fetch, rows) == [fetch |-> fetch, rows |-> rows, step |-> e]

GraphEvent(g) == [kind |-> "graph", graph |-> g, step |-> 0]

SummaryEvent(step) == [kind |-> "summary", graph |-> {}, step |-> step]

-----------------------------------------------------------------------------
(* Cell 1 from the numeric frame on: lines 89-98 *)

InputFrames ==
    UNION {{Frame(DfColumns, rows) : rows \in [1..n -> SampleRows]} :
              n \in 1..MaxRows}

NoLogs == [d \in LogDirs |-> <<>>]

InitData ==
    /\ pc = "numeric"
    /\ cell = 0
    /\ defaults_df \in InputFrames
    /\ clf_df = EmptyFrame
    /\ X = EmptyFrame
    /\ Y = <<>>
    /\ graph = {}
    /\ W = <<>>
    /\ b = <<>>
    /\ initialised = FALSE
    /\ logs = NoLogs
    /\ e = 0
    /\ runs = {}
    /\ accuracy = <<>>
    /\ cost = <<>>

\* defaults_df = defaults_df[defaults_df.EDUCATION != 0]
RemoveInvalidEducation ==
    /\ pc = "numeric"
    /\ defaults_df' = RemoveInvalid(defaults_df)
    /\ pc' = "filtered"
    /\ UNCHANGED <<cell, clf_df, X, Y, graph, W, b, initialised, logs, e, runs,
                   accuracy, cost>>

\* clf_df = pd.get_dummies(defaults_df, columns=[...], prefix=[...])
OneHotEncode ==
    /\ pc = "filtered"
    /\ clf_df' = GetDummies(defaults_df, EncodedColumns, EncodedPrefix)
    /\ pc' = "encoded"
    /\ UNCHANGED <<cell, defaults_df, X, Y, graph, W, b, initialised, logs, e,
                   runs, accuracy, cost>>

\* X = clf_df.drop('Y', axis=1); Y = clf_df.Y; Y = Y.values.reshape(n, 1)
SetXY ==
    /\ pc = "encoded"
    /\ X' = DropColumn(clf_df, "Y")
    /\ Y' = LabelColumn(clf_df)
    /\ pc' = "split"
    /\ UNCHANGED <<cell, defaults_df, clf_df, graph, W, b, initialised, logs, e,
                   runs, accuracy, cost>>

NextData == RemoveInvalidEducation \/ OneHotEncode \/ SetXY

SpecData == InitData /\ [][NextData]_vars

-----------------------------------------------------------------------------
(* The graph cells, run top to bottom after cell 1: lines 140-180, 212-249, *)
(* 285-337                                                                  *)

\* Encoded frames as cell 1 leaves them, small enough to feed: one numeric
\* column, the target and the indicators of one encoded column.
FedColumns == <<"AGE", "Y", "SEX_1", "SEX_2">>

FedRows ==
    {[c \in Range(FedColumns) |->
        IF c = "AGE" THEN age
        ELSE IF c = "Y" THEN y
        ELSE IF c = DummyName("SEX", sex) THEN 1 ELSE 0] :
     age \in {24, 34}, y \in {0, 1}, sex \in {1, 2}}

EncodedFrames ==
    UNION {{Frame(FedColumns, rows) : rows \in [1..n -> FedRows]} :
              n \in 1..MaxBatch}

AllRows == 1..Len(X.rows)

Init ==
    /\ pc = "build"
    /\ cell = 1
    /\ defaults_df = EmptyFrame
    /\ clf_df \in EncodedFrames
    /\ X = DropColumn(clf_df, "Y")
    /\ Y = LabelColumn(clf_df)
    /\ graph = {}
    /\ W = <<>>
    /\ b = <<>>
    /\ initialised = FALSE
    /\ logs = NoLogs
    /\ e = 0
    /\ runs = {}
    /\ accuracy = <<>>
    /\ cost = <<>>

\* tf.reset_default_graph() and the statements that define the graph
BuildGraph ==
    /\ pc = "build"
    /\ graph' = CellGraph(cell)
    /\ pc' = "session"
    /\ UNCHANGED <<cell, defaults_df, clf_df, X, Y, W, b, initialised, logs, e,
                   runs, accuracy, cost>>

\* with tf.Session() as sess: sess.run(tf.global_variables_initializer())
InitVariables ==
    /\ pc = "session"
    /\ W' \in [1..num_features -> [1..num_outputs -> TruncatedNormal]]
    /\ b' = [k \in 1..num_outputs |-> 0]
    /\ initialised' = TRUE
    /\ runs' = runs \cup {[fetch |-> "init", rows |-> {}, step |-> 0]}
    /\ pc' = "writer"
    /\ UNCHANGED <<cell, defaults_df, clf_df, X, Y, graph, logs, e, accuracy,
                   cost>>

\* file_writer = tf.summary.FileWriter(dir, sess.graph)
FileWriter ==
    /\ pc = "writer"
    /\ logs' = [logs EXCEPT ![LogDir(cell)] = Append(@, GraphEvent(graph))]
    /\ pc' = IF cell = 3 THEN "add_graph" ELSE "close"
    /\ UNCHANGED <<cell, defaults_df, clf_df, X, Y, graph, W, b, initialised, e,
                   runs, accuracy, cost>>

\* file_writer.add_graph(sess.graph)
AddGraph ==
    /\ pc = "add_graph"
    /\ logs' = [logs EXCEPT ![LogDir(cell)] = Append(@, GraphEvent(graph))]
    /\ pc' = "loop"
    /\ UNCHANGED <<cell, defaults_df, clf_df, X, Y, graph, W, b, initialised, e,
                   runs, accuracy, cost>>

\* for e in range(epochs):
\*     sess.run(optimizer, feed_dict={x: X.as_matrix(), y_labels: Y})
TrainStep ==
    /\ pc = "loop"
    /\ e < epochs
    /\ W' = StepW(AsMatrix(X), W, b, Y)
    /\ b' = StepB(AsMatrix(X), W, b, Y)
    /\ runs' = runs \cup {Run("optimizer", AllRows)}
    /\ e' = e + 1
    /\ UNCHANGED <<pc, cell, defaults_df, clf_df, X, Y, graph, initialised, logs,
                   accuracy, cost>>

\* The end of the with block (in the third cell, once the loop is exhausted)
\* closes the session; the next graph cell follows.
CloseSession ==
    /\ \/ pc = "close"
       \/ pc = "loop" /\ e = epochs
    /\ W' = <<>>
    /\ b' = <<>>
    /\ initialised' = FALSE
    /\ cell' = IF cell = 3 THEN 0 ELSE cell + 1
    /\ pc' = IF cell = 3 THEN "done" ELSE "build"
    /\ UNCHANGED <<defaults_df, clf_df, X, Y, graph, logs, e, runs, accuracy,
                   cost>>

Next ==
    \/ BuildGraph
    \/ InitVariables
    \/ FileWriter
    \/ AddGraph
    \/ TrainStep
    \/ CloseSession

Spec == Init /\ [][Next]_vars

-----------------------------------------------------------------------------
(* The accuracy and cost nodes, fetched in a session of any of the graph    *)
(* cells on inputs X and labels Y.                                          *)

\* Values the trained variables can hold when a node is fetched
TrainedWeights == {-(Unit \div 10), 0, Unit \div 10}

TrainedBias == {-Unit, 0, Unit}

InitEval ==
    /\ pc = "eval"
    /\ cell \in Cells
    /\ defaults_df = EmptyFrame
    /\ clf_df \in EncodedFrames
    /\ X = DropColumn(clf_df, "Y")
    /\ Y = LabelColumn(clf_df)
    /\ graph = CellGraph(cell)
    /\ W \in [1..num_features -> [1..num_outputs -> TrainedWeights]]
    /\ b \in [1..num_outputs -> TrainedBias]
    /\ initialised = TRUE
    /\ logs = NoLogs
    /\ e = 0
    /\ runs = {}
    /\ accuracy = <<>>
    /\ cost = <<>>

HasOp(op) == op \in Ops(graph)

\* sess.run(accuracy, feed_dict={x: X.as_matrix(), y_labels: Y})
RunAccuracy ==
    /\ pc = "eval"
    /\ HasOp("accuracy")
    /\ accuracy = <<>>
    /\ accuracy' = <<Accuracy(Output(AsMatrix(X), W, b), Y)>>
    /\ runs' = runs \cup {Run("accuracy", AllRows)}
    /\ UNCHANGED <<pc, cell, defaults_df, clf_df, X, Y, graph, W, b, initialised,
                   logs, e, cost>>

\* sess.run(cost, feed_dict={x: X.as_matrix(), y_labels: Y})
RunCost ==
    /\ pc = "eval"
    /\ HasOp("cost")
    /\ cost = <<>>
    /\ cost' = <<Cost(Output(AsMatrix(X), W, b), Y)>>
    /\ runs' = runs \cup {Run("cost", AllRows)}
    /\ UNCHANGED <<pc, cell, defaults_df, clf_df, X, Y, graph, W, b, initialised,
                   logs, e, accuracy>>

NextEval == RunAccuracy \/ RunCost

SpecEval == InitEval /\ [][NextEval]_vars

-----------------------------------------------------------------------------
(* Properties *)

GraphEvents(d) == {ev \in Range(logs[d]) : ev.kind = "graph"}

ExportedGraphs == UNION {{ev.graph : ev \in GraphEvents(d)} : d \in LogDirs}

ChainOps == {"inputs", "W", "mat_mul", "bias", "add", "sigmoid", "cost",
             "gradient_descent", "accuracy"}

\* C1: the notebook builds four variations of the graph, and every variation
\* holds every node of the chain inputs -> matmul with W -> add bias ->
\* sigmoid -> cost -> gradient-descent step -> accuracy.
C1_EveryVariationHasChain ==
    /\ \A g \in ExportedGraphs : ChainOps \subseteq Ops(g)
    /\ pc = "done" => Cardinality(ExportedGraphs) = 4

\* The third graph cell has exported its graph.
C1_ThirdGraphExported ==
    GraphEvent(CellGraph(3)) \in Range(logs[LogDir(3)])

\* The class a sigmoid output in percent predicts
PredictedClass(p) == IF p >= 50 THEN 1 ELSE 0

FedOutput == Output(AsMatrix(X), W, b)

Matches ==
    Cardinality({i \in AllRows : PredictedClass(FedOutput[i][1]) = Y[i][1]})

\* C2: the value of the accuracy node is the share of the fed rows whose
\* predicted class equals the row's label.
C2_AccuracyIsShareOfCorrectRows ==
    accuracy # <<>> => accuracy[1] = (100 * Matches) \div Len(Y)

\* The accuracy node was fetched on a batch with a misclassified row.
C2_Misclassified ==
    accuracy # <<>> /\ Matches < Len(Y)

RemoveAt(s, i) == SubSeq(s, 1, i - 1) \o SubSeq(s, i + 1, Len(s))

\* How far the output of row i is from its label, in percent
Distance(i) ==
    IF Y[i][1] = 1 THEN 100 - FedOutput[i][1] ELSE FedOutput[i][1]

\* What row i adds to the fetched cost: the cost less the cost of the batch
\* without the row
Contribution(i) == cost[1] - Cost(RemoveAt(FedOutput, i), RemoveAt(Y, i))

\* C3: every fed row, whatever its label, adds to the cost, and adds more the
\* further its output is from its label.
C3_CostGrowsWithDistance ==
    cost # <<>> =>
        \A i \in AllRows :
            /\ Distance(i) > 0 => Contribution(i) > 0
            /\ \A j \in AllRows :
                   Distance(i) > Distance(j) => Contribution(i) > Contribution(j)

\* The cost was fetched on a batch with a row of label 0 whose output is
\* nearer to 1.
C3_WrongOnLabelZero ==
    cost # <<>> /\ \E i \in AllRows : Y[i][1] = 0 /\ FedOutput[i][1] > 50

TrainedRows == UNION {r.rows : r \in {q \in runs : q.fetch = "optimizer"}}

\* C4: once training is done the model is tested on hold-out data: an
\* evaluation runs after the last training step, on rows none of which was fed
\* to the optimizer.
C4_TestedOnHoldOut ==
    pc = "done" =>
        \E r \in runs :
            /\ r.fetch \in {"accuracy", "cost"}
            /\ r.step = epochs
            /\ r.rows # {}
            /\ r.rows \cap TrainedRows = {}

\* Training has finished.
C4_TrainingDone ==
    pc = "done" /\ [fetch |-> "optimizer", rows |-> AllRows, step |-> epochs - 1]
                       \in runs

\* C5: summaries of the weights, the bias and the accuracy are defined and
\* merged, and every epoch of the training loop writes the merged summary to
\* the file writer with the epoch as step.
C5_SummaryEveryEpoch ==
    cell = 3 /\ pc = "loop" /\ e > 0 =>
        /\ {"Weights", "Bias", "Accuracy", "merged"} \subseteq Ops(graph)
        /\ \A k \in 0..(e - 1) : SummaryEvent(k) \in Range(logs[LogDir(3)])

\* An epoch of the training loop has run.
C5_EpochRan == cell = 3 /\ pc = "loop" /\ e > 0

\* Cell c has left its with block's FileWriter statement behind.
Exported(c) ==
    \/ pc = "done"
    \/ cell > c
    \/ cell = c /\ pc \in {"add_graph", "loop", "close"}

\* C6: every graph cell initialises the variables in its session and then
\* hands the session's graph to a FileWriter on its own log directory, and no
\* two cells write to the same directory.
C6_EveryCellExportsItsGraph ==
    /\ [](/\ \A c \in Cells, d \in Cells : c # d => LogDir(c) # LogDir(d)
          /\ \A c \in Cells :
                /\ Exported(c) => GraphEvent(CellGraph(c)) \in Range(logs[LogDir(c)])
                /\ \A ev \in Range(logs[LogDir(c)]) : ev = GraphEvent(CellGraph(c)))
    /\ [][logs' # logs =>
            /\ initialised
            /\ [fetch |-> "init", rows |-> {}, step |-> 0] \in runs
            /\ logs' = [logs EXCEPT ![LogDir(cell)] = Append(@, GraphEvent(graph))]
         ]_vars

\* All three graph cells have run and left their graph in their directory.
C6_AllExported ==
    /\ pc = "done"
    /\ \A c \in Cells : logs[LogDir(c)] # <<>>

\* The values the encoded columns take in the data set
CategoryValues == -2 .. 8

\* The indicator columns of the k-th encoded column
Group(k) ==
    {c \in Range(clf_df.columns) :
        \E v \in CategoryValues : c = DummyName(EncodedPrefix[k], v)}

Encoded == {k \in 1..Len(EncodedColumns) : TRUE}

\* C7: after the encoding, every row has in each of the nine groups exactly
\* one indicator at 1, the one of the row's original value; the nine original
\* columns are gone, and the other columns are as they were.
C7_OneHotEncoding ==
    pc \in {"encoded", "split"} =>
        /\ Len(clf_df.rows) = Len(defaults_df.rows)
        /\ \A k \in Encoded : EncodedColumns[k] \notin Range(clf_df.columns)
        /\ \A c \in Range(defaults_df.columns) \ Range(EncodedColumns) :
               c \in Range(clf_df.columns)
        /\ Range(clf_df.columns) =
               (Range(defaults_df.columns) \ Range(EncodedColumns))
               \cup UNION {Group(k) : k \in Encoded}
        /\ \A i \in 1..Len(clf_df.rows) :
               /\ \A k \in Encoded :
                      /\ \A c \in Group(k) : clf_df.rows[i][c] \in {0, 1}
                      /\ {c \in Group(k) : clf_df.rows[i][c] = 1} =
                             {DummyName(EncodedPrefix[k],
                                        defaults_df.rows[i][EncodedColumns[k]])}
               /\ \A c \in Range(defaults_df.columns) \ Range(EncodedColumns) :
                      clf_df.rows[i][c] = defaults_df.rows[i][c]

\* A frame of rows that differ in an encoded column has been encoded.
C7_EncodedSeveralLevels ==
    /\ pc = "encoded"
    /\ \E i, j \in 1..Len(defaults_df.rows) :
           defaults_df.rows[i]["SEX"] # defaults_df.rows[j]["SEX"]
    /\ Cardinality(Group(1)) = 2

====
